---- MODULE Spec2Model ----
(***************************************************************************)
(* Model of the two per-structure aggregation helpers of chemiscope.ipynb: *)
(* average_over_structures and sum_over_structures.                        *)
(*                                                                         *)
(* A descriptor block is a pair of arrays: the "structure" column of the   *)
(* samples (one structure index per row) and the 2-D values array.  Arrays *)
(* live in a heap so that aliasing between the inputs and the returned     *)
(* array is expressible.  Numbers are exact rationals <<num, den>> in      *)
(* lowest terms; <<0, 0>> stands for NaN (the result of a mean over zero   *)
(* rows).  Rounding of binary floating point is not modelled.              *)
(***************************************************************************)
EXTENDS Integers, Sequences, FiniteSets, TLC

VARIABLES heap, fn, pc, all_structures, output, i, structure, mask

vars == <<heap, fn, pc, all_structures, output, i, structure, mask>>

(* ------------------------------ bounds --------------------------------- *)

(* Inputs: a samples column of at most MaxRows structure indices taken from
   0 .. MaxStructure, and a values array of at most MaxRows rows, MaxCols
   columns and MaxCells entries, each entry taken from ValueSet.  The two
   lengths are chosen independently of each other. *)

MaxRows == 3

MaxCols == 2

MaxCells == 6

MaxStructure == 2

ValueSet == {1, 3, 5}

(* ---------------------------- rationals -------------------------------- *)

RECURSIVE GCD(_, _)
GCD(a, b) == IF b = 0 THEN a ELSE GCD(b, a % b)

Abs(a) == IF a < 0 THEN -a ELSE a

NaN == <<0, 0>>

Rat(n, d) ==
    IF d = 0 THEN NaN
    ELSE LET g == GCD(Abs(n), Abs(d))
             s == IF d < 0 THEN -1 ELSE 1
         IN  <<(s * n) \div g, (s * d) \div g>>

FromInt(n) == <<n, 1>>

RatAdd(x, y) ==
    IF x[2] = 0 \/ y[2] = 0 THEN NaN
    ELSE Rat(x[1] * y[2] + y[1] * x[2], x[2] * y[2])

RatDivInt(x, k) == IF x[2] = 0 THEN NaN ELSE Rat(x[1], x[2] * k)

(* ------------------------------ arrays --------------------------------- *)

Unallocated == [shape |-> <<>>, data |-> <<>>]

Array1(col) == [shape |-> <<Len(col)>>, data |-> col]

Array2(n, m, rows) == [shape |-> <<n, m>>, data |-> rows]

SamplesAddr == 1

ValuesAddr == 2

Addrs == 1 .. 3

NullRef == 0


(* np.unique replaced by the column itself: duplicates are kept *)
np_unique_keep_duplicates(ar) == ar

(* np.unique replaced by the distinct elements in order of first occurrence *)
np_unique_first_occurrence(ar) ==
    LET first == SelectSeq([r \in 1 .. Len(ar) |-> r],
                           LAMBDA r : \A q \in 1 .. (r - 1) : ar[q] # ar[r])
    IN  [k \in 1 .. Len(first) |-> ar[first[k]]]

(* np.unique: the sorted distinct elements of a 1-D array *)
RECURSIVE SortedSeq(_)
SortedSeq(S) ==
    IF S = {} THEN <<>>
    ELSE LET lo == CHOOSE x \in S : \A y \in S : x <= y
         IN  <<lo>> \o SortedSeq(S \ {lo})

Range(s) == {s[k] : k \in DOMAIN s}

np_unique(ar) == SortedSeq(Range(ar))

(* np.zeros((n, m)) *)
np_zeros(n, m) == Array2(n, m, [r \in 1 .. n |-> [c \in 1 .. m |-> FromInt(0)]])


(* the output is made a view of the values array instead of a new array *)
Alloc_view_of_values(h) == ValuesAddr

(* the address np.zeros hands out: storage not in use by any live array *)
Alloc(h) == CHOOSE a \in Addrs : h[a] = Unallocated


(* the comparison written with <= instead of == *)
Equals_leq(col, s) == [r \in 1 .. Len(col) |-> col[r] <= s]

(* the comparison made against the next structure index *)
Equals_next(col, s) == [r \in 1 .. Len(col) |-> col[r] = s + 1]

(* samples["structure"] == structure : one boolean per sample row *)
Equals(col, s) == [r \in 1 .. Len(col) |-> col[r] = s]

(* values[mask, :] : "IndexError" when the boolean index has another length
   than the first axis, else a copy of the selected rows in row order *)
BoolIndex(arr, m) ==
    IF Len(m) # arr.shape[1] THEN [error |-> "IndexError", rows |-> <<>>]
    ELSE LET idx == SelectSeq([r \in 1 .. Len(m) |-> r], LAMBDA r : m[r])
         IN  [error |-> "", rows |-> [j \in 1 .. Len(idx) |-> arr.data[idx[j]]]]

RECURSIVE ColSum(_, _)
ColSum(rows, c) ==
    IF rows = <<>> THEN FromInt(0)
    ELSE RatAdd(rows[1][c], ColSum(Tail(rows), c))

(* the reduction of the other function pasted in: a sum where the mean belongs *)
np_mean_as_sum(rows, m) == [c \in 1 .. m |-> ColSum(rows, c)]

(* the reduction of the other function pasted in: a mean where the sum belongs *)
np_sum_as_mean(rows, m) == [c \in 1 .. m |-> RatDivInt(ColSum(rows, c), Len(rows))]

(* the mean taken with the row count off by one *)
np_mean_off_by_one(rows, m) == [c \in 1 .. m |-> RatDivInt(ColSum(rows, c), Len(rows) + 1)]

(* np.sum(rows, axis=0) over rows of m columns *)
np_sum(rows, m) == [c \in 1 .. m |-> ColSum(rows, c)]

(* np.mean(rows, axis=0): the column sums divided by the row count *)
np_mean(rows, m) == [c \in 1 .. m |-> RatDivInt(ColSum(rows, c), Len(rows))]

(* the accumulation lands in the first row whatever the index *)
IAddRow_first_row(arr, k, row) ==
    [arr EXCEPT !.data[1] = [c \in 1 .. arr.shape[2] |-> RatAdd(@[c], row[c])]]

(* output[i, :] += row  (i is 0-based) *)
IAddRow(arr, k, row) ==
    [arr EXCEPT !.data[k + 1] = [c \in 1 .. arr.shape[2] |-> RatAdd(@[c], row[c])]]

(* ------------------------------ inputs --------------------------------- *)

SeqsUpTo(S, n) == UNION {[1 .. k -> S] : k \in 0 .. n}

Shapes == {sh \in (0 .. MaxRows) \X (0 .. MaxCols) : sh[1] * sh[2] <= MaxCells}

Init ==
    /\ \E col \in SeqsUpTo(0 .. MaxStructure, MaxRows) :
       \E sh \in Shapes :
       \E rows \in [1 .. sh[1] -> [1 .. sh[2] -> {FromInt(v) : v \in ValueSet}]] :
           heap = [a \in Addrs |->
                     IF a = SamplesAddr THEN Array1(col)
                     ELSE IF a = ValuesAddr THEN Array2(sh[1], sh[2], rows)
                     ELSE Unallocated]
    /\ fn = "none"
    /\ pc = "start"
    /\ all_structures = <<>>
    /\ output = NullRef
    /\ i = 0
    /\ structure = -1
    /\ mask = <<>>

(* ------------------------ average_over_structures ---------------------- *)

(* samples, values, np.unique, np.zeros *)
average_enter ==
    /\ pc = "start"
    /\ LET samples == heap[SamplesAddr]
           values == heap[ValuesAddr]
           uniq == np_unique(samples.data)
           out == Alloc(heap)
       IN  /\ all_structures' = uniq
           /\ output' = out
           /\ heap' = [heap EXCEPT ![out] = np_zeros(Len(uniq), values.shape[2])]
    /\ fn' = "average"
    /\ pc' = "loop"
    /\ i' = 0
    /\ UNCHANGED <<structure, mask>>

(* one iteration of the for loop *)
average_iterate ==
    /\ pc = "loop"
    /\ fn = "average"
    /\ i < Len(all_structures)
    /\ LET samples == heap[SamplesAddr]
           values == heap[ValuesAddr]
           s == all_structures[i + 1]
           m == Equals(samples.data, s)
           sel == BoolIndex(values, m)
       IN  /\ structure' = s
           /\ mask' = m
           /\ IF sel.error = "IndexError"
              THEN /\ pc' = "raised"
                   /\ UNCHANGED <<heap, i>>
              ELSE /\ heap' = [heap EXCEPT ![output] =
                                 IAddRow(@, i, np_mean(sel.rows, values.shape[2]))]
                   /\ i' = i + 1
                   /\ pc' = "loop"
    /\ UNCHANGED <<fn, all_structures, output>>

(* the loop is exhausted: return output *)
average_return ==
    /\ pc = "loop"
    /\ fn = "average"
    /\ i = Len(all_structures)
    /\ pc' = "returned"
    /\ UNCHANGED <<heap, fn, all_structures, output, i, structure, mask>>

average_over_structures == average_enter \/ average_iterate \/ average_return

(* -------------------------- sum_over_structures ------------------------ *)

sum_enter ==
    /\ pc = "start"
    /\ LET samples == heap[SamplesAddr]
           values == heap[ValuesAddr]
           uniq == np_unique(samples.data)
           out == Alloc(heap)
       IN  /\ all_structures' = uniq
           /\ output' = out
           /\ heap' = [heap EXCEPT ![out] = np_zeros(Len(uniq), values.shape[2])]
    /\ fn' = "sum"
    /\ pc' = "loop"
    /\ i' = 0
    /\ UNCHANGED <<structure, mask>>

sum_iterate ==
    /\ pc = "loop"
    /\ fn = "sum"
    /\ i < Len(all_structures)
    /\ LET samples == heap[SamplesAddr]
           values == heap[ValuesAddr]
           s == all_structures[i + 1]
           m == Equals(samples.data, s)
           sel == BoolIndex(values, m)
       IN  /\ structure' = s
           /\ mask' = m
           /\ IF sel.error = "IndexError"
              THEN /\ pc' = "raised"
                   /\ UNCHANGED <<heap, i>>
              ELSE /\ heap' = [heap EXCEPT ![output] =
                                 IAddRow(@, i, np_sum(sel.rows, values.shape[2]))]
                   /\ i' = i + 1
                   /\ pc' = "loop"
    /\ UNCHANGED <<fn, all_structures, output>>

sum_return ==
    /\ pc = "loop"
    /\ fn = "sum"
    /\ i = Len(all_structures)
    /\ pc' = "returned"
    /\ UNCHANGED <<heap, fn, all_structures, output, i, structure, mask>>

sum_over_structures == sum_enter \/ sum_iterate \/ sum_return

Next == average_over_structures \/ sum_over_structures

Spec == Init /\ [][Next]_vars

(* ------------------- the two functions as pure operators --------------- *)

(* the rows average_over_structures returns for a samples column and a
   values array with as many rows: row k is a row of zeros to which the mean
   of the rows of the k-th distinct index is added *)
average_rows(col, arr) ==
    LET uniq == np_unique(col)
        zeros == np_zeros(1, arr.shape[2])
    IN  [k \in 1 .. Len(uniq) |->
           IAddRow(zeros, 0,
                   np_mean(BoolIndex(arr, Equals(col, uniq[k])).rows, arr.shape[2])).data[1]]

(* the rows sum_over_structures returns for a samples column and a values
   array with as many rows: row k is a row of zeros to which the sum of the
   rows of the k-th distinct index is added *)
sum_rows(col, arr) ==
    LET uniq == np_unique(col)
        zeros == np_zeros(1, arr.shape[2])
    IN  [k \in 1 .. Len(uniq) |->
           IAddRow(zeros, 0,
                   np_sum(BoolIndex(arr, Equals(col, uniq[k])).rows, arr.shape[2])).data[1]]

(* --------------------- vocabulary of the properties -------------------- *)

Samples == heap[SamplesAddr].data

Values == heap[ValuesAddr]

Out == heap[output]

NCols == Values.shape[2]

Matched == Len(Samples) = Values.shape[1]

Returned == pc = "returned" /\ Matched

Distinct == Range(Samples)

RowsOf(s) == {r \in 1 .. Len(Samples) : Samples[r] = s}

(* 1-based position of s in the ascending list of distinct indices *)
Rank(s) == Cardinality({t \in Distinct : t < s}) + 1

(* the integer total of input column c over the rows in S *)
RECURSIVE ColumnTotal(_, _)
ColumnTotal(S, c) ==
    IF S = {} THEN 0
    ELSE LET r == CHOOSE q \in S : TRUE
         IN  Values.data[r][c][1] + ColumnTotal(S \ {r}, c)

IsSumOf(x, S, c) == x = <<ColumnTotal(S, c), 1>>

IsMeanOf(x, S, c) ==
    /\ x[2] > 0
    /\ x[1] * Cardinality(S) = ColumnTotal(S, c) * x[2]

IsAggregateOf(x, S, c) ==
    IF fn = "average" THEN IsMeanOf(x, S, c) ELSE IsSumOf(x, S, c)

(* k times the rational x *)
RatMulInt(x, k) == IF x[2] = 0 THEN NaN ELSE Rat(x[1] * k, x[2])

(* the permutations of 1 .. n, for every input length n *)
PermsOf ==
    [n \in 0 .. MaxRows |->
       {p \in [1 .. n -> 1 .. n] : \A a, b \in 1 .. n : a # b => p[a] # p[b]}]

Perms(n) == PermsOf[n]

Permuted(sq, p) == [r \in 1 .. Len(sq) |-> sq[p[r]]]

RowsFor(f, col, arr) == IF f = "average" THEN average_rows(col, arr) ELSE sum_rows(col, arr)

ZeroRow == [c \in 1 .. NCols |-> <<0, 1>>]

(* ------------------------------- C1 ------------------------------------ *)

(* C1: for an index mapping of length n and an n-row feature array, the array
   either function returns has as many rows as there are distinct structure
   indices in the mapping, and as many columns as the input. *)
C1_OutputShape ==
    Returned =>
        /\ Out.shape = <<Cardinality(Distinct), NCols>>
        /\ Len(Out.data) = Cardinality(Distinct)
        /\ \A r \in 1 .. Len(Out.data) : Len(Out.data[r]) = NCols

C1_Witness ==
    /\ Returned
    /\ Len(Samples) = 3
    /\ Cardinality(Distinct) = 2
    /\ NCols = 2
    /\ Out.shape = <<2, 2>>

(* ------------------------------- C2 ------------------------------------ *)

(* C2: in both modes output row i is the aggregate of the structure with the
   i-th smallest distinct index, and permuting the index mapping and the
   rows of the feature array together leaves the output unchanged. *)
C2_OrderIndependent ==
    Returned =>
        /\ \A s \in Distinct : \A c \in 1 .. NCols :
               IsAggregateOf(Out.data[Rank(s)][c], RowsOf(s), c)
        /\ \A p \in Perms(Len(Samples)) :
               RowsFor(fn, Permuted(Samples, p),
                       Array2(Values.shape[1], NCols, Permuted(Values.data, p)))
                   = Out.data

(* unsorted, non-contiguous indices: structure 2 before structure 0 *)
C2_Witness ==
    /\ Returned
    /\ Samples = <<2, 0, 2>>
    /\ Values.data = << <<FromInt(1)>>, <<FromInt(3)>>, <<FromInt(5)>> >>
    /\ fn = "average"
    /\ Out.data = << <<FromInt(3)>>, <<FromInt(3)>> >>

(* ------------------------------- C3 ------------------------------------ *)

(* C3: average_over_structures: the entry for structure s and column c is the
   arithmetic mean of column c over exactly the rows whose index is s. *)
C3_Mean ==
    (Returned /\ fn = "average") =>
        \A s \in Distinct : \A c \in 1 .. NCols :
            IsMeanOf(Out.data[Rank(s)][c], RowsOf(s), c)

(* the documented example: rows [1,1], [3,3], [5,5] of one structure give [3,3] *)
C3_Witness ==
    /\ Returned
    /\ fn = "average"
    /\ Cardinality(Distinct) = 1
    /\ Values.data = << <<FromInt(1), FromInt(1)>>, <<FromInt(3), FromInt(3)>>,
                        <<FromInt(5), FromInt(5)>> >>
    /\ Out.data = << <<FromInt(3), FromInt(3)>> >>

(* ------------------------------- C4 ------------------------------------ *)

(* C4: sum_over_structures: the entry for structure s and column c is the sum
   of column c over exactly the rows whose index is s. *)
C4_Sum ==
    (Returned /\ fn = "sum") =>
        \A s \in Distinct : \A c \in 1 .. NCols :
            IsSumOf(Out.data[Rank(s)][c], RowsOf(s), c)

(* the documented example: rows [1,1], [3,3], [5,5] of one structure give [9,9] *)
C4_Witness ==
    /\ Returned
    /\ fn = "sum"
    /\ Cardinality(Distinct) = 1
    /\ Values.data = << <<FromInt(1), FromInt(1)>>, <<FromInt(3), FromInt(3)>>,
                        <<FromInt(5), FromInt(5)>> >>
    /\ Out.data = << <<FromInt(9), FromInt(9)>> >>

(* ------------------------------- C5 ------------------------------------ *)

(* C5: when the index mapping and the feature array differ in length, the
   aggregation raises and returns no array. *)
C5_MismatchRaises == ~Matched => pc # "returned"

(* ------------------------------- C6 ------------------------------------ *)

(* C6 as stated: a table with exactly one row per structure index comes back
   unchanged, in both modes. *)
C6_OneRowPerIndexUnchanged ==
    (Returned /\ \A s \in Distinct : Cardinality(RowsOf(s)) = 1) =>
        Out.data = Values.data

(* C6 amended: a table with exactly one row per structure index whose rows
   are in ascending index order comes back unchanged, in both modes. *)
C6_AscendingOneRowPerIndexUnchanged ==
    (Returned /\ \A a, b \in 1 .. Len(Samples) : a < b => Samples[a] < Samples[b]) =>
        /\ Out.data = Values.data
        /\ Out.shape = Values.shape

C6_Witness ==
    /\ Returned
    /\ Samples = <<0, 2>>
    /\ NCols = 2
    /\ Values.data[1] # Values.data[2]
    /\ Out.data = Values.data

(* ------------------------------- C7 ------------------------------------ *)

(* C7: a structure index with exactly one contributing row gets that row's
   feature vector as its output row, in both modes, whatever the other
   structures contribute. *)
C7_SingleRow ==
    Returned =>
        \A r \in 1 .. Len(Samples) :
            RowsOf(Samples[r]) = {r} => Out.data[Rank(Samples[r])] = Values.data[r]

(* one structure with a single row next to one with two rows *)
C7_Witness ==
    /\ Returned
    /\ Samples = <<1, 0, 1>>
    /\ NCols = 2
    /\ Out.data[1] = Values.data[2]
    /\ Out.data[2] # Values.data[1]

(* ------------------------------- C8 ------------------------------------ *)

(* C8: no step of either function changes the index mapping or the feature
   array, and the array that is returned occupies storage that held no array
   before the call. *)
C8_NoSideEffects ==
    [][/\ heap'[SamplesAddr] = heap[SamplesAddr]
       /\ heap'[ValuesAddr] = heap[ValuesAddr]
       /\ output' # output => heap[output'] = Unallocated
       /\ pc' = "returned" => output' \notin {SamplesAddr, ValuesAddr, NullRef}]_vars

C8_Witness ==
    /\ Returned
    /\ Len(Out.data) = 2
    /\ NCols = 2
    /\ Out.data[1] # ZeroRow
    /\ Out.data[2] # ZeroRow

(* ------------------------------- C9 ------------------------------------ *)

(* C9: every loop iteration's mask selects at least one row; the iteration
   for the i-th smallest distinct index writes row i and no other, a row
   not written before, and no mean is taken over an empty group (no NaN);
   when the function returns every row has been written. *)
C9_LoopWritesEachRowOnce ==
    [][/\ (pc = "loop" /\ i < Len(all_structures)) =>
            /\ \E r \in 1 .. Len(mask') : mask'[r]
            /\ structure' \in Distinct /\ Rank(structure') = i + 1
            /\ pc' = "loop" =>
                 /\ i' = i + 1
                 /\ Out.data[i + 1] = ZeroRow
                 /\ \A k \in 1 .. Len(Out.data) : k # i + 1 => Out'.data[k] = Out.data[k]
                 /\ \A c \in 1 .. NCols : Out'.data[i + 1][c] # NaN
       /\ pc' = "returned" => i' = Cardinality(Distinct)]_vars

(* the second iteration has run and selected some rows but not all *)
C9_Witness ==
    /\ pc = "loop"
    /\ Matched
    /\ i = 2
    /\ \E r \in 1 .. Len(mask) : mask[r]
    /\ \E r \in 1 .. Len(mask) : ~mask[r]
    /\ NCols >= 1
    /\ Out.data[2] # ZeroRow

(* ------------------------------- C10 ----------------------------------- *)

(* C10: both modes put structure s in the same output row, and for a structure
   with k contributing rows the sum-mode row is k times the mean-mode row in
   every column. *)
C10_SumIsCountTimesMean ==
    Returned =>
        LET sums == sum_rows(Samples, Values)
            means == average_rows(Samples, Values)
        IN  \A s \in Distinct : \A c \in 1 .. NCols :
                LET k == Cardinality(RowsOf(s))
                IN  /\ all_structures[Rank(s)] = s
                    /\ fn = "average" =>
                         sums[Rank(s)][c] = RatMulInt(Out.data[Rank(s)][c], k)
                    /\ fn = "sum" =>
                         Out.data[Rank(s)][c] = RatMulInt(means[Rank(s)][c], k)

(* a structure of three rows whose mean is not an integer *)
C10_Witness ==
    /\ Returned
    /\ fn = "sum"
    /\ Samples = <<0, 0, 0>>
    /\ NCols = 1
    /\ Out.data = << <<FromInt(7)>> >>
    /\ average_rows(Samples, Values) = << << <<7, 3>> >> >>

====
